---- MODULE Spec2Model ----
(***************************************************************************)
(* Recommendation strategies of the repository: collaborative filtering    *)
(* (collaborative.py), content-based filtering (content.py), context-aware *)
(* scoring and diversity filtering (advanced.py) and visual similarity     *)
(* (cnn.py).  Every class is stateless after construction, so a state is   *)
(* the constructed object plus the record of the latest call: arguments,   *)
(* intermediate values the claims speak about, and the outcome.  Each      *)
(* script constructs its object and calls it once; calls do not depend on  *)
(* earlier calls, so a behaviour is one construction and one call.         *)
(*                                                                         *)
(* Identifiers are positions: user i is the i-th row label, product j the  *)
(* j-th column label; an identifier outside 1..n is an unknown label.      *)
(* Cosine similarities of non-negative integer vectors are kept exactly,   *)
(* as the pair <<dot^2, |a|^2 * |b|^2>> (the squared cosine), which orders *)
(* like the cosine itself because no dot product is negative.              *)
(***************************************************************************)
EXTENDS Integers, Sequences, FiniteSets, TLC

VARIABLES user_item_matrix, similarity_matrix, collab,
          tfidf_matrix, content,
          user_data, product_data, advanced,
          image

collabVars == <<user_item_matrix, similarity_matrix, collab>>
contentVars == <<tfidf_matrix, content>>
advancedVars == <<user_data, product_data, advanced>>
imageVars == <<image>>

vars == <<collabVars, contentVars, advancedVars, imageVars>>

\* ------------------------------------------------------------------ bounds
NumUsers == 2
NumProducts == 2
MaxRating == 1
MaxTopN == 2

\* ------------------------------------------------------- generic helpers
Min(a, b) == IF a < b THEN a ELSE b

Range(s) == {s[i] : i \in DOMAIN s}

\* s[::-1]
Reverse(s) == [i \in 1..Len(s) |-> s[Len(s) + 1 - i]]

\* s[:n] for n >= 0
Take(s, n) == SubSeq(s, 1, Min(n, Len(s)))

\* s[1:6] style slice s[lo:hi] with 0-based bounds, lo <= hi
Slice(s, lo, hi) == SubSeq(s, lo + 1, Min(hi, Len(s)))

RECURSIVE SumSeq(_)
SumSeq(s) == IF s = <<>> THEN 0 ELSE Head(s) + SumSeq(Tail(s))

Dot(a, b) == SumSeq([i \in 1..Len(a) |-> a[i] * b[i]])

NormSq(a) == Dot(a, a)

\* All orders in which the elements of a finite set can be listed.
Orderings(S) ==
    {f \in [1..Cardinality(S) -> S] : \A i, j \in 1..Cardinality(S) : f[i] = f[j] => i = j}

\* ------------------------------------------------- cosine similarity
\* sklearn.metrics.pairwise.cosine_similarity: rows are L2-normalised first,
\* and a row of norm 0 is left as it is (its norm is replaced by 1), so the
\* similarity of a zero row with anything is 0.  Value: <<dot^2, na * nb>>.
cosine_similarity(a, b) ==
    IF NormSq(a) = 0 \/ NormSq(b) = 0
    THEN <<0, 1>>
    ELSE <<Dot(a, b) * Dot(a, b), NormSq(a) * NormSq(b)>>

\* x < y for two exact similarities
SimLess(x, y) == x[1] * y[2] < y[1] * x[2]

SimEq(x, y) == x[1] * y[2] = y[1] * x[2]

\* The float nan, which no cosine_similarity call produces.
NaN == <<0, 0>>

IsNaN(x) == x[2] = 0

\* The order numpy sorts floats in: nan after every number.
FloatLess(x, y) ==
    IF IsNaN(x) THEN FALSE
    ELSE IF IsNaN(y) THEN TRUE
    ELSE SimLess(x, y)

\* numpy.argsort with the default kind ("quicksort", not a stable sort): an
\* index order that lists the keys in ascending order; the order among equal
\* keys depends on the numpy build, so every such order is an outcome.
ArgsortOutcomes(keys) ==
    {p \in Permutations(1..Len(keys)) :
        \A i \in 1..(Len(keys) - 1) : ~FloatLess(keys[p[i + 1]], keys[p[i]])}

\* ------------------------------------------------------ collaborative.py
NeighborCount == 5

\* Sample data of collaborative.py: rows are users after the transpose.
SampleUserItemMatrix ==
    << <<5, 3, 0, 0, 4>>,
       <<0, 4, 1, 2, 0>>,
       <<3, 0, 0, 4, 2>> >>

\* Seven users over two products: more users than neighbor slots.
WideUserItemMatrix ==
    << <<1, 0>>, <<1, 1>>, <<2, 1>>, <<3, 1>>, <<1, 2>>, <<1, 3>>, <<0, 1>> >>

UserItemMatrices ==
    [1..NumUsers -> [1..NumProducts -> 0..MaxRating]]
        \cup {SampleUserItemMatrix, WideUserItemMatrix}

\* CollaborativeFiltering._compute_user_similarity
ComputeUserSimilarity(m) ==
    [u \in 1..Len(m) |-> [v \in 1..Len(m) |-> cosine_similarity(m[u], m[v])]]

\* similar_users = np.argsort(user_similarities)[::-1][1:6], given the argsort
\* outcome p
SimilarUsers(p) == Slice(Reverse(p), 1, 1 + NeighborCount)

\* Variant: the target's own rating is not looked at.
NeighborProductsAnyRating(m, user_index, neighbor) ==
    {product \in 1..Len(m[neighbor]) : m[neighbor][product] > 0}

\* Products one neighbor contributes: rating > 0 and the target's rating == 0.
NeighborProducts(m, user_index, neighbor) ==
    {product \in 1..Len(m[neighbor]) :
        m[neighbor][product] > 0 /\ m[user_index][product] = 0}

\* The set recommended_products after the loop over similar_users.
RecommendedProducts(m, user_index, similar_users) ==
    UNION {NeighborProducts(m, user_index, similar_users[k]) : k \in DOMAIN similar_users}

NoCollabCall ==
    [outcome |-> "none", user_id |-> 0, top_n |-> 0,
     similar_users |-> <<>>, result |-> <<>>]

InitCollabObject ==
    /\ user_item_matrix \in UserItemMatrices
    /\ similarity_matrix = ComputeUserSimilarity(user_item_matrix)

\* recommend_products with a user_id that is not a row label: ValueError.
RecommendProductsUnknown(user_id, top_n) ==
    /\ collab.outcome = "none"
    /\ user_id \notin 1..Len(user_item_matrix)
    /\ collab' = [outcome |-> "ValueError", user_id |-> user_id, top_n |-> top_n,
                  similar_users |-> <<>>, result |-> <<>>]
    /\ UNCHANGED <<user_item_matrix, similarity_matrix, contentVars, advancedVars,
                   imageVars>>

\* recommend_products for a known user.  list(recommended_products) lists a
\* set of strings, whose iteration order changes with the interpreter's hash
\* seed: every listing of the set is an outcome.
RecommendProducts(user_id, top_n) ==
    /\ collab.outcome = "none"
    /\ user_id \in 1..Len(user_item_matrix)
    /\ \E p \in ArgsortOutcomes(similarity_matrix[user_id]) :
         LET similar_users == SimilarUsers(p)
             recommended_products ==
                 RecommendedProducts(user_item_matrix, user_id, similar_users)
         IN \E listing \in Orderings(recommended_products) :
              collab' = [outcome |-> "ok", user_id |-> user_id, top_n |-> top_n,
                         similar_users |-> similar_users,
                         result |-> Take(listing, top_n)]
    /\ UNCHANGED <<user_item_matrix, similarity_matrix, contentVars, advancedVars,
                   imageVars>>

\* ------------------------------------------------------------ content.py
NumItems == 3
NumTerms == 2
MaxTfidf == 1

\* ContentBasedFiltering._create_tfidf_matrix: one row of non-negative term
\* weights per catalog item (a description with no vocabulary term gives an
\* all-zero row).  Every term of the fitted vocabulary occurs in some
\* description, so no column is all zeros.  Only the direction of a row
\* matters to the cosine.
TfidfMatrices ==
    {m \in [1..NumItems -> [1..NumTerms -> 0..MaxTfidf]] :
        \A t \in 1..NumTerms : \E i \in 1..NumItems : m[i][t] > 0}

NoContentCall ==
    [outcome |-> "none", product_id |-> 0, top_n |-> 0,
     similarity_scores |-> <<>>, result |-> <<>>]

\* product_catalog.index.get_loc(product_id) on an unknown label: KeyError.
RecommendSimilarProductsUnknown(product_id, top_n) ==
    /\ content.outcome = "none"
    /\ product_id \notin 1..Len(tfidf_matrix)
    /\ content' = [outcome |-> "KeyError", product_id |-> product_id, top_n |-> top_n,
                   similarity_scores |-> <<>>, result |-> <<>>]
    /\ UNCHANGED <<collabVars, tfidf_matrix, advancedVars, imageVars>>

\* cosine_similarity(tfidf_matrix[product_index], tfidf_matrix)[0]
SimilarityScores(m, product_index) ==
    [i \in 1..Len(m) |-> cosine_similarity(m[product_index], m[i])]

\* [i for i in argsort()[::-1] if i != product_index][:top_n]
SimilarIndices(p, product_index, top_n) ==
    Take(SelectSeq(Reverse(p), LAMBDA i : i # product_index), top_n)

RecommendSimilarProducts(product_id, top_n) ==
    /\ content.outcome = "none"
    /\ product_id \in 1..Len(tfidf_matrix)
    /\ LET similarity_scores == SimilarityScores(tfidf_matrix, product_id)
       IN \E p \in ArgsortOutcomes(similarity_scores) :
            content' = [outcome |-> "ok", product_id |-> product_id, top_n |-> top_n,
                        similarity_scores |-> similarity_scores,
                        result |-> SimilarIndices(p, product_id, top_n)]
    /\ UNCHANGED <<collabVars, tfidf_matrix, advancedVars, imageVars>>

\* ---------------------------------------------------------------- cnn.py
NumImages == 2
FeatureDim == 2
MaxFeature == 1

\* extract_image_features: the flattened avg_pool output of ResNet50, a vector
\* of non-negative activations (it follows a ReLU); all zeros is possible.
FeatureVectors == [1..FeatureDim -> 0..MaxFeature]

\* np.dot(ref, feat) / (np.linalg.norm(ref) * np.linalg.norm(feat)): numpy
\* float division, so 0 / 0 is nan (a RuntimeWarning, no exception).
ImageSimilarity(ref, feat) ==
    IF NormSq(ref) * NormSq(feat) = 0
    THEN NaN
    ELSE <<Dot(ref, feat) * Dot(ref, feat), NormSq(ref) * NormSq(feat)>>

NoImageCall ==
    [outcome |-> "none", reference_features |-> <<>>, product_features |-> <<>>,
     top_n |-> 0, similarities |-> <<>>, result |-> <<>>]

\* similar_indices = np.argsort(similarities)[::-1][:top_n]; the result lists
\* the product images (here: their positions in product_images).
RecommendVisuallySimilarProducts(reference_features, product_features, top_n) ==
    /\ image.outcome = "none"
    /\ LET similarities ==
               [i \in 1..Len(product_features) |->
                    ImageSimilarity(reference_features, product_features[i])]
       IN \E p \in ArgsortOutcomes(similarities) :
            image' = [outcome |-> "ok", reference_features |-> reference_features,
                      product_features |-> product_features, top_n |-> top_n,
                      similarities |-> similarities,
                      result |-> Take(Reverse(p), top_n)]
    /\ UNCHANGED <<collabVars, contentVars, advancedVars>>

\* ------------------------------------------------------------ advanced.py
MaxCatalogLen == 2
MaxRecs == 3

\* Scores are kept in thousandths: a weight in hundredths times a factor in
\* tenths.
TopK == 10
DeviceFactor == 8
LocationFactor == 7
FullFactor == 10

\* context_weights of context_aware_recommendations, in hundredths
ContextWeights == [device |-> 20, location |-> 20, time_of_day |-> 30, season |-> 30]

\* A key that the context dictionary does not hold (context.get gives None).
Absent == "<absent>"

\* time_preferences.get(value, [])
TimePreferences(value) ==
    CASE value = "Morning" -> {"Breakfast Items", "Fitness Products"}
      [] value = "Afternoon" -> {"Lunch Accessories", "Work Gear"}
      [] value = "Evening" -> {"Dinner Products", "Relaxation Items"}
      [] OTHER -> {}

\* seasonal_categories.get(value, [])
SeasonalCategories(value) ==
    CASE value = "Winter" -> {"Warm Clothing", "Indoor Accessories"}
      [] value = "Summer" -> {"Beach Wear", "Cooling Products"}
      [] OTHER -> {}

Categories ==
    {"Breakfast Items", "Fitness Products", "Lunch Accessories", "Work Gear",
     "Dinner Products", "Relaxation Items", "Warm Clothing", "Indoor Accessories",
     "Beach Wear", "Cooling Products", "Electronics"}

\* Context descriptors: each key absent, recognized, or unrecognized.
Contexts ==
    [device : {Absent, "Mobile", "Desktop"},
     location : {Absent, "Urban", "Rural"},
     time_of_day : {Absent, "Morning", "Afternoon", "Evening", "Night"},
     season : {Absent, "Winter", "Summer", "Spring"}]

\* Sample data of advanced.py
SampleUserData == <<"u1", "u2", "u3">>

SampleProductData ==
    <<"Warm Clothing", "Beach Wear", "Indoor Accessories", "Fitness Products",
      "Dinner Products">>

SampleContext ==
    [device |-> "Mobile", location |-> "Urban", time_of_day |-> "Evening",
     season |-> "Winter"]

\* A catalog with more items than the result cap.
LongProductData ==
    <<"Fitness Products", "Warm Clothing", "Electronics", "Dinner Products",
      "Beach Wear", "Warm Clothing", "Breakfast Items", "Indoor Accessories",
      "Electronics", "Relaxation Items", "Cooling Products", "Dinner Products">>

ProductCatalogs ==
    UNION {[1..n -> Categories] : n \in 0..MaxCatalogLen}
        \cup {SampleProductData, LongProductData}

\* Variant: the location rule as an elif of the device rule.
DeviceElseLocationRelevance(context, weights) ==
    IF context.device = "Mobile" THEN weights.device * DeviceFactor
    ELSE IF context.location = "Urban" THEN weights.location * LocationFactor
    ELSE 0

\* Variant: the device and location rules without their 0.8 and 0.7 factors.
DeviceLocationFullWeight(context, weights) ==
    (IF context.device = "Mobile" THEN weights.device * FullFactor ELSE 0)
    + (IF context.location = "Urban" THEN weights.location * FullFactor ELSE 0)

\* The device and location rules of _compute_context_relevance (two separate
\* if statements).
DeviceLocationRelevance(context, weights) ==
    (IF context.device = "Mobile" THEN weights.device * DeviceFactor ELSE 0)
    + (IF context.location = "Urban" THEN weights.location * LocationFactor ELSE 0)

\* AdvancedRecommendationSystem._compute_context_relevance
ComputeContextRelevance(product_category, context, weights) ==
    DeviceLocationRelevance(context, weights)
    + (IF product_category \in TimePreferences(context.time_of_day)
       THEN weights.time_of_day * FullFactor ELSE 0)
    + (IF product_category \in SeasonalCategories(context.season)
       THEN weights.season * FullFactor ELSE 0)

\* Insert x into the descending list out, after every element whose key is
\* not smaller (equal keys keep their input order).
RECURSIVE InsertDesc(_, _, _)
InsertDesc(out, x, key) ==
    IF out = <<>> THEN <<x>>
    ELSE IF key[Head(out)] >= key[x]
         THEN <<Head(out)>> \o InsertDesc(Tail(out), x, key)
         ELSE <<x>> \o out

RECURSIVE SortedFrom(_, _, _)
SortedFrom(out, rest, key) ==
    IF rest = <<>> THEN out
    ELSE SortedFrom(InsertDesc(out, Head(rest), key), Tail(rest), key)

\* Variant: an ascending stable sort whose output is reversed afterwards.
RECURSIVE InsertAsc(_, _, _)
InsertAsc(out, x, key) ==
    IF out = <<>> THEN <<x>>
    ELSE IF key[Head(out)] <= key[x]
         THEN <<Head(out)>> \o InsertAsc(Tail(out), x, key)
         ELSE <<x>> \o out

RECURSIVE SortedAscFrom(_, _, _)
SortedAscFrom(out, rest, key) ==
    IF rest = <<>> THEN out
    ELSE SortedAscFrom(InsertAsc(out, Head(rest), key), Tail(rest), key)

SortedAscendingThenReversed(ids, key) == Reverse(SortedAscFrom(<<>>, ids, key))

\* sorted(recommendations, key=lambda x: x[1], reverse=True): Python's sort is
\* stable, and reverse=True keeps the input order of equal keys.
SortedByScoreReversed(ids, key) == SortedFrom(<<>>, ids, key)

NoAdvancedCall ==
    [op |-> "none", outcome |-> "none", user_id |-> "", context |-> <<>>,
     scores |-> <<>>, recommendations |-> <<>>, diversity_factor |-> 0,
     result |-> <<>>]

\* context_aware_recommendations: user_id is never read.
ContextAwareRecommendations(user_id, context) ==
    /\ advanced.op = "none"
    /\ LET scores == [i \in 1..Len(product_data) |->
                        ComputeContextRelevance(product_data[i], context, ContextWeights)]
           ids == [i \in 1..Len(product_data) |-> i]
       IN advanced' = [op |-> "context_aware_recommendations", outcome |-> "ok",
                       user_id |-> user_id, context |-> context, scores |-> scores,
                       recommendations |-> <<>>, diversity_factor |-> 0,
                       result |-> Take(SortedByScoreReversed(ids, scores), TopK)]
    /\ UNCHANGED <<collabVars, contentVars, user_data, product_data, imageVars>>

\* Variant: a category is kept until it has been seen twice.
DiversityKeepTwo(category_diversity, category) ==
    \/ category \notin DOMAIN category_diversity
    \/ category_diversity[category] < 2

\* if category not in category_diversity
DiversityKeep(category_diversity, category) == category \notin DOMAIN category_diversity

\* One pass of the loop body of diversity_optimization over the rest of the
\* list; category_diversity is the dictionary of counts.
RECURSIVE DiversityLoop(_, _, _, _)
DiversityLoop(catalog, rest, category_diversity, diversified) ==
    IF rest = <<>> THEN diversified
    ELSE LET rec == Head(rest)
             category == catalog[rec]
             keep == DiversityKeep(category_diversity, category)
             started == IF category \in DOMAIN category_diversity
                        THEN category_diversity
                        ELSE [c \in DOMAIN category_diversity \cup {category} |->
                                 IF c = category THEN 0 ELSE category_diversity[c]]
             counted == [started EXCEPT ![category] = @ + 1]
         IN DiversityLoop(catalog, Tail(rest), counted,
                          IF keep THEN Append(diversified, rec) ELSE diversified)

EmptyDict == [c \in {} |-> 0]

\* diversity_optimization on a list of catalog ids; diversity_factor is never
\* read.
DiversityOptimization(recommendations, diversity_factor) ==
    /\ advanced.op = "none"
    /\ Range(recommendations) \subseteq 1..Len(product_data)
    /\ advanced' = [op |-> "diversity_optimization", outcome |-> "ok",
                    user_id |-> "", context |-> <<>>, scores |-> <<>>,
                    recommendations |-> recommendations,
                    diversity_factor |-> diversity_factor,
                    result |-> DiversityLoop(product_data, recommendations,
                                             EmptyDict, <<>>)]
    /\ UNCHANGED <<collabVars, contentVars, user_data, product_data, imageVars>>

\* product_data.loc[rec, 'category'] on an id that is no catalog label: KeyError.
DiversityOptimizationUnknown(recommendations, diversity_factor) ==
    /\ advanced.op = "none"
    /\ ~(Range(recommendations) \subseteq 1..Len(product_data))
    /\ advanced' = [op |-> "diversity_optimization", outcome |-> "KeyError",
                    user_id |-> "", context |-> <<>>, scores |-> <<>>,
                    recommendations |-> recommendations,
                    diversity_factor |-> diversity_factor, result |-> <<>>]
    /\ UNCHANGED <<collabVars, contentVars, user_data, product_data, imageVars>>

\* ------------------------------------------------------- specifications
\* Each script builds its own object; the objects of the other scripts are
\* held at a fixed value.
IdleCollab ==
    /\ user_item_matrix = SampleUserItemMatrix
    /\ similarity_matrix = ComputeUserSimilarity(SampleUserItemMatrix)
    /\ collab = NoCollabCall

IdleContent ==
    /\ tfidf_matrix = << <<1, 0>>, <<0, 1>> >>
    /\ content = NoContentCall

IdleAdvanced ==
    /\ user_data = SampleUserData
    /\ product_data = SampleProductData
    /\ advanced = NoAdvancedCall

IdleImage == image = NoImageCall

InitCollab ==
    /\ InitCollabObject
    /\ collab = NoCollabCall
    /\ IdleContent /\ IdleAdvanced /\ IdleImage

\* The script's call, with any user id (one past the last row is unknown).
CallRecommendProductsUnknown ==
    /\ collab.outcome = "none"
    /\ \E user_id \in 0..(Len(user_item_matrix) + 1), top_n \in 0..MaxTopN :
         RecommendProductsUnknown(user_id, top_n)

CallRecommendProducts ==
    /\ collab.outcome = "none"
    /\ \E user_id \in 0..(Len(user_item_matrix) + 1), top_n \in 0..MaxTopN :
         RecommendProducts(user_id, top_n)

NextCollab ==
    \/ CallRecommendProductsUnknown
    \/ CallRecommendProducts

SpecCollab == InitCollab /\ [][NextCollab]_vars

InitContent ==
    /\ tfidf_matrix \in TfidfMatrices
    /\ content = NoContentCall
    /\ IdleCollab /\ IdleAdvanced /\ IdleImage

CallRecommendSimilarProductsUnknown ==
    /\ content.outcome = "none"
    /\ \E product_id \in 0..(Len(tfidf_matrix) + 1), top_n \in 0..MaxTopN :
         RecommendSimilarProductsUnknown(product_id, top_n)

CallRecommendSimilarProducts ==
    /\ content.outcome = "none"
    /\ \E product_id \in 0..(Len(tfidf_matrix) + 1), top_n \in 0..MaxTopN :
         RecommendSimilarProducts(product_id, top_n)

NextContent ==
    \/ CallRecommendSimilarProductsUnknown
    \/ CallRecommendSimilarProducts

SpecContent == InitContent /\ [][NextContent]_vars

InitImage ==
    /\ image = NoImageCall
    /\ IdleCollab /\ IdleContent /\ IdleAdvanced

CallRecommendVisuallySimilarProducts ==
    /\ image.outcome = "none"
    /\ \E reference_features \in FeatureVectors,
          n \in 0..NumImages, top_n \in 0..MaxTopN :
         \E product_features \in [1..n -> FeatureVectors] :
           RecommendVisuallySimilarProducts(reference_features, product_features, top_n)

NextImage == CallRecommendVisuallySimilarProducts

SpecImage == InitImage /\ [][NextImage]_vars

InitAdvanced ==
    /\ user_data = SampleUserData
    /\ product_data \in ProductCatalogs
    /\ advanced = NoAdvancedCall
    /\ IdleCollab /\ IdleContent /\ IdleImage

\* One known and one unknown user id.
CallContextAwareRecommendations ==
    /\ advanced.op = "none"
    /\ \E user_id \in {user_data[1], "u4"}, context \in Contexts :
         ContextAwareRecommendations(user_id, context)

\* Lists of ids, one past the last catalog position being unknown;
\* diversity_factor in tenths.
CallDiversityOptimization ==
    /\ advanced.op = "none"
    /\ \E n \in 0..MaxRecs, diversity_factor \in {3, 5} :
         \E recommendations \in [1..n -> 1..(Len(product_data) + 1)] :
           DiversityOptimization(recommendations, diversity_factor)

CallDiversityOptimizationUnknown ==
    /\ advanced.op = "none"
    /\ \E n \in 0..MaxRecs, diversity_factor \in {3, 5} :
         \E recommendations \in [1..n -> 1..(Len(product_data) + 1)] :
           DiversityOptimizationUnknown(recommendations, diversity_factor)

NextAdvanced ==
    \/ CallContextAwareRecommendations
    \/ CallDiversityOptimization
    \/ CallDiversityOptimizationUnknown

SpecAdvanced == InitAdvanced /\ [][NextAdvanced]_vars

\* ============================================================== properties

\* ------------------------------------------------------------------- C1
\* C1: no product returned by recommend_products has a nonzero interaction
\* strength for the queried user; on the sample matrix the result for user_1
\* lies within {product_c, product_d}.
C1_NoInteractedProduct ==
    collab.outcome = "ok" =>
        /\ \A k \in DOMAIN collab.result :
               user_item_matrix[collab.user_id][collab.result[k]] = 0
        /\ (user_item_matrix = SampleUserItemMatrix /\ collab.user_id = 1)
               => Range(collab.result) \subseteq {3, 4}

\* A call that returned something although a selected neighbor also rated a
\* product the queried user has rated.
C1_Witness ==
    /\ collab.outcome = "ok"
    /\ collab.result # <<>>
    /\ \E k \in DOMAIN collab.similar_users, product \in 1..Len(user_item_matrix[1]) :
           /\ collab.similar_users[k] # collab.user_id
           /\ user_item_matrix[collab.similar_users[k]][product] > 0
           /\ user_item_matrix[collab.user_id][product] > 0

\* ------------------------------------------------------------------- C9
\* Candidates in the order of the rank of the first neighbor contributing
\* them, then item order in the matrix.
RECURSIVE NeighborRankOrder(_, _, _, _)
NeighborRankOrder(m, user_index, neighbors, acc) ==
    IF neighbors = <<>> THEN acc
    ELSE LET fresh == SelectSeq([j \in 1..Len(m[user_index]) |-> j],
                          LAMBDA j : /\ j \in NeighborProducts(m, user_index, Head(neighbors))
                                     /\ j \notin Range(acc))
         IN NeighborRankOrder(m, user_index, Tail(neighbors), acc \o fresh)

\* C9: recommend_products returns the candidates ordered by the rank of the
\* first neighbor that contributes them and then by item order, truncated
\* to top_n, so the list is fixed by the inputs alone.
C9_DeterministicOrder ==
    collab.outcome = "ok" =>
        collab.result =
            Take(NeighborRankOrder(user_item_matrix, collab.user_id,
                                   collab.similar_users, <<>>),
                 collab.top_n)

\* ------------------------------------------------------------------ C10
\* C10: the target user is never among the selected neighbors, and the
\* neighbors are exactly the up-to-5 other users most similar to the target.
C10_NeighborsExcludeSelf ==
    collab.outcome = "ok" =>
        LET n == Len(user_item_matrix)
            others == (1..n) \ {collab.user_id}
            selected == Range(collab.similar_users)
            row == similarity_matrix[collab.user_id]
        IN /\ collab.user_id \notin selected
           /\ selected \subseteq others
           /\ Cardinality(selected) = Min(NeighborCount, n - 1)
           /\ \A s \in selected, o \in others \ selected : ~SimLess(row[s], row[o])

\* ------------------------------------------------------------------- C6
\* C6: of two non-reference items with equal similarity to the reference
\* item, the one earlier in the catalog comes earlier in the result, and if
\* only one of them is returned it is the earlier one.
C6_TiesInCatalogOrder ==
    content.outcome = "ok" =>
        LET sc == content.similarity_scores
            res == content.result
        IN /\ \A a, b \in DOMAIN res :
                  (a < b /\ SimEq(sc[res[a]], sc[res[b]])) => res[a] < res[b]
           /\ \A a \in DOMAIN res, j \in (1..Len(sc)) \ (Range(res) \cup {content.product_id}) :
                  SimEq(sc[res[a]], sc[j]) => res[a] < j

\* ------------------------------------------------------------------- C2
\* Indexes of the input whose category did not occur earlier in the input.
FirstOccurrences(catalog, recs) ==
    {i \in DOMAIN recs : \A j \in 1..(i - 1) : catalog[recs[j]] # catalog[recs[i]]}

\* C2: the output of diversity_optimization is the order-preserving
\* subsequence of the input made of the first occurrence of each category,
\* whatever diversity_factor is: at most one item per category, and every
\* category of the input exactly once.
C2_FirstOccurrencePerCategory ==
    (advanced.op = "diversity_optimization" /\ advanced.outcome = "ok") =>
        LET recs == advanced.recommendations
            res == advanced.result
            keep == FirstOccurrences(product_data, recs)
            nth(k) == CHOOSE i \in keep : Cardinality({j \in keep : j < i}) = k - 1
        IN /\ Len(res) = Cardinality(keep)
           /\ \A k \in DOMAIN res : res[k] = recs[nth(k)]
           /\ \A a, b \in DOMAIN res :
                  product_data[res[a]] = product_data[res[b]] => a = b
           /\ {product_data[res[k]] : k \in DOMAIN res}
                  = {product_data[recs[i]] : i \in DOMAIN recs}

\* A call whose input holds two different items of one category followed by
\* an item of another category, with a diversity_factor other than the
\* default.
C2_Witness ==
    /\ advanced.op = "diversity_optimization"
    /\ advanced.outcome = "ok"
    /\ advanced.diversity_factor = 5
    /\ Len(advanced.result) = 2
    /\ \E i, j, k \in DOMAIN advanced.recommendations :
           /\ i < j /\ j < k
           /\ advanced.recommendations[i] # advanced.recommendations[j]
           /\ product_data[advanced.recommendations[i]]
                  = product_data[advanced.recommendations[j]]
           /\ product_data[advanced.recommendations[k]]
                  # product_data[advanced.recommendations[i]]

\* ------------------------------------------------------------------- C3
SampleCall ==
    /\ advanced.op = "context_aware_recommendations"
    /\ product_data = SampleProductData
    /\ advanced.context = SampleContext

\* C3 (as stated): on the documented example p1, p3 and p5 score 0.7 and p2
\* and p4 score 0.4 (700 and 400 thousandths).
C3_DocumentedScores ==
    SampleCall => advanced.scores = <<700, 400, 700, 400, 700>>

\* C3 (amended): on the documented example p1, p3 and p5 score 0.6 and p2
\* and p4 score 0.3 (600 and 300 thousandths): the device and location rules
\* add 0.2*0.8 and 0.2*0.7, not 0.2 each.
C3_SampleScores ==
    SampleCall => advanced.scores = <<600, 300, 600, 300, 600>>

C3_Witness == SampleCall /\ advanced.outcome = "ok" /\ Len(advanced.result) = 5

\* ------------------------------------------------------------------- C4
\* The four rules as the claim states them, each on its own.
DeviceRule(context, weights) ==
    IF context.device = "Mobile" THEN (weights.device * 8) ELSE 0

LocationRule(context, weights) ==
    IF context.location = "Urban" THEN (weights.location * 7) ELSE 0

TimeRule(category, context, weights) ==
    IF category \in TimePreferences(context.time_of_day)
    THEN (weights.time_of_day * 10) ELSE 0

SeasonRule(category, context, weights) ==
    IF category \in SeasonalCategories(context.season)
    THEN (weights.season * 10) ELSE 0

\* The context with one key removed.
Without(context, key) == [context EXCEPT ![key] = Absent]

\* C4: the score of every item is the sum of the four independently firing
\* rules; an absent or unrecognized key adds 0, the empty context scores
\* every item 0, and removing a key never raises the score.
C4_AdditiveRules ==
    (advanced.op = "context_aware_recommendations") =>
        LET ctx == advanced.context
            w == ContextWeights
        IN \A i \in DOMAIN product_data :
             /\ advanced.outcome = "ok"
             /\ advanced.scores[i] =
                    DeviceRule(ctx, w) + LocationRule(ctx, w)
                    + TimeRule(product_data[i], ctx, w)
                    + SeasonRule(product_data[i], ctx, w)
             /\ (\A key \in DOMAIN ctx : ctx[key] = Absent) => advanced.scores[i] = 0
             /\ \A key \in DOMAIN ctx :
                    ComputeContextRelevance(product_data[i], Without(ctx, key), w)
                        <= advanced.scores[i]

\* Device, location and time-of-day rules fire together for an item while
\* the season is an unrecognized value.
C4_Witness ==
    /\ advanced.op = "context_aware_recommendations"
    /\ advanced.context.season = "Spring"
    /\ \E i \in DOMAIN product_data : advanced.scores[i] = 600

\* ------------------------------------------------------------------- C5
\* Item a ranks before item b: higher score, or equal score and earlier in
\* the catalog.
RanksBefore(scores, a, b) ==
    \/ scores[a] > scores[b]
    \/ (scores[a] = scores[b] /\ a < b)

\* C5: the list returned by context_aware_recommendations is a prefix (the
\* first 10) of the catalog ids ordered by score descending with ties in
\* catalog order.
C5_StableDescendingPrefix ==
    (advanced.op = "context_aware_recommendations") =>
        LET res == advanced.result
            sc == advanced.scores
        IN /\ Len(res) = Min(TopK, Len(product_data))
           /\ Range(res) \subseteq DOMAIN product_data
           /\ \A a, b \in DOMAIN res : a < b => RanksBefore(sc, res[a], res[b])
           /\ \A a \in DOMAIN res, o \in (DOMAIN product_data) \ Range(res) :
                  RanksBefore(sc, res[a], o)

\* A call on a catalog longer than the cap, with tied scores inside the
\* result and an omitted item tied with a returned one.
C5_Witness ==
    /\ advanced.op = "context_aware_recommendations"
    /\ Len(product_data) > TopK
    /\ Len(advanced.result) = TopK
    /\ \E a, b \in DOMAIN advanced.result :
           a < b /\ advanced.scores[advanced.result[a]] = advanced.scores[advanced.result[b]]
    /\ \E a \in DOMAIN advanced.result, o \in (DOMAIN product_data) \ Range(advanced.result) :
           advanced.scores[advanced.result[a]] = advanced.scores[o]
    /\ \E a, b \in DOMAIN advanced.result :
           advanced.scores[advanced.result[a]] > advanced.scores[advanced.result[b]]

\* ------------------------------------------------------------------- C7
\* C7: a call with an unknown identifier (recommend_products,
\* recommend_similar_products, context_aware_recommendations) ends in an
\* error and returns no list.
C7_UnknownIdsRejected ==
    /\ (collab.outcome # "none" /\ collab.user_id \notin 1..Len(user_item_matrix))
           => collab.outcome \in {"ValueError", "KeyError"}
    /\ (content.outcome # "none" /\ content.product_id \notin 1..Len(tfidf_matrix))
           => content.outcome \in {"ValueError", "KeyError"}
    /\ (advanced.op = "context_aware_recommendations"
            /\ advanced.user_id \notin Range(user_data))
           => advanced.outcome \in {"ValueError", "KeyError"}

\* ------------------------------------------------------------------- C8
Zero == <<0, 1>>

\* C8: in every similarity computation (user, item, image), when either
\* vector has norm 0 the similarity used for ranking is 0 and never NaN.
C8_ZeroNormSimilarityIsZero ==
    /\ \A u, v \in DOMAIN user_item_matrix :
           (NormSq(user_item_matrix[u]) = 0 \/ NormSq(user_item_matrix[v]) = 0)
               => similarity_matrix[u][v] = Zero
    /\ content.outcome = "ok" =>
           \A i \in DOMAIN tfidf_matrix :
               (NormSq(tfidf_matrix[content.product_id]) = 0 \/ NormSq(tfidf_matrix[i]) = 0)
                   => content.similarity_scores[i] = Zero
    /\ image.outcome = "ok" =>
           \A i \in DOMAIN image.product_features :
               (NormSq(image.reference_features) = 0
                    \/ NormSq(image.product_features[i]) = 0)
                   => (image.similarities[i] = Zero /\ ~IsNaN(image.similarities[i]))

====
